---- MODULE Spec2Model ----
(***************************************************************************)
(* efi_main of the PCI IDE sector reader (Part2.md): the handle scan over  *)
(* the PCI I/O handles, the Block I/O bind on a matching handle, the       *)
(* one-sector read and the hex dump.  Firmware calls are the environment:  *)
(* each call's outcome is chosen when the call is made and recorded, with  *)
(* every console Print, in the event log `trace`.                          *)
(***************************************************************************)
EXTENDS Integers, Sequences, FiniteSets

\* ---------------------------------------------------------------- bounds
MaxHandles == 3          \* largest HandleCount LocateHandleBuffer returns
MaxDisk == 1             \* backend contents are Sector(0) .. Sector(MaxDisk)

\* ------------------------------------------------------- program constants
BufferSize == 512                  \* UINTN BufferSize = 512
LBA == 0                           \* UINT32 LBA = 0
PCI_CLASS_MASS_STORAGE == 1        \* base class compared with ClassCode[2]
PCI_CLASS_MASS_STORAGE_IDE == 1    \* subclass compared with ClassCode[1]
BytesPerLine == 16                 \* (i + 1) % 16 == 0
HexWidth == 2                      \* the 2 of "%02x "

\* ------------------------------------------------------------ environment
\* Device class signatures (base class, subclass, interface) of the handles.
Signatures == { <<1, 1, 128>>, <<1, 1, 0>>, <<1, 6, 0>>, <<6, 1, 1>> }

\* Block sizes and media identifiers a bound Block I/O device may report.
BlockSizes == { 512, 4096 }
MediaIds == { 7 }

LocateErrors == { "EFI_NOT_FOUND", "EFI_OUT_OF_RESOURCES" }
ProtocolErrors == { "EFI_UNSUPPORTED" }
PciReadErrors == { "EFI_UNSUPPORTED" }
ReadErrors == { "EFI_DEVICE_ERROR", "EFI_MEDIA_CHANGED" }

\* EFI_ERROR(Status)
EFI_ERROR(st) == st # "EFI_SUCCESS"

\* Content of the backend's block at LBA 0, one byte per index 1..BufferSize.
Sector(d) == [k \in 1..BufferSize |-> ((2 * d + 1) * (k - 1) + 97 * d) % 256]

\* What Pci.Read stores for a device of signature sig: configuration space
\* holds the interface at offset 9, the subclass at 10, the base class at 11,
\* so C's ClassCode[0..2] (here ClassCode[1..3]) is the signature reversed.
ConfigBytes(sig) == << sig[3], sig[2], sig[1] >>

\* ---------------------------------------------------------------- state
VARIABLES
    pc,           \* position in efi_main
    Status,       \* EFI_STATUS Status
    HandleCount,  \* UINTN HandleCount
    Index,        \* UINTN Index
    ClassCode,    \* UINT8 ClassCode[3], C index k is element k + 1
    Media,        \* BlockIo->Media of the bound device: [MediaId, BlockSize]
    Buffer,       \* contents of *Buffer, <<>> while no pool block backs it
    i,            \* loop variable of the hex dump
    allocs,       \* pool blocks handed out so far, per block
    frees,        \* pool blocks released so far, per block
    disk,         \* which content the backend holds at LBA 0
    trace,        \* firmware calls and Prints so far, in program order
    ret           \* value returned by efi_main, "none" while running

vars == << pc, Status, HandleCount, Index, ClassCode, Media, Buffer, i,
           allocs, frees, disk, trace, ret >>

Blocks == { "HandleBuffer", "Buffer" }

\* One event of the log.  idx is the handle index of the call (-1: none),
\* st its status, bytes what Pci.Read returned, out what Print wrote,
\* req the <<MediaId, Lba, BufferSize>> of a ReadBlocks or size of an alloc.
Ev(op, idx, st, bytes, out, req) ==
    [ op |-> op, idx |-> idx, st |-> st, bytes |-> bytes, out |-> out,
      req |-> req ]

Call(tr, op, idx, st) == Append(tr, Ev(op, idx, st, <<>>, <<>>, <<>>))

\* A constant line written to the console
ConsolePrint(tr, line) == Append(tr, Ev("Print", -1, "", <<>>, << line >>, <<>>))

\* ------------------------------------------------------------ hex format
HexChars == << "0", "1", "2", "3", "4", "5", "6", "7",
               "8", "9", "A", "B", "C", "D", "E", "F" >>

\* ValueToHex: the digits of v, most significant first, "0" for zero.
RECURSIVE ValueToHex(_)
ValueToHex(v) ==
    IF v = 0 THEN << >>
    ELSE Append(ValueToHex(v \div 16), HexChars[(v % 16) + 1])

\* Left padding of a formatted item to the field width with the pad char.
RECURSIVE PadLeft(_, _, _)
PadLeft(s, width, pad) ==
    IF Len(s) >= width THEN s ELSE PadLeft(<< pad >> \o s, width, pad)

\* Variant of Fmt02x without the zero padding (format "%x ").
Fmt02xNoPad(b) ==
    (IF b = 0 THEN << "0" >> ELSE ValueToHex(b)) \o << " " >>

\* The text written for format "%02x " and byte b
Fmt02x(b) ==
    LET digits == IF b = 0 THEN << "0" >> ELSE ValueToHex(b)
    IN  PadLeft(digits, HexWidth, "0") \o << " " >>

\* (i + 1) % 16 == 0
LineBreakAfter(n) == (n + 1) % BytesPerLine = 0

\* The body of the dump loop: the byte, then a line break after each 16th
PrintByte(tr, n, b) ==
    LET t1 == Append(tr, Ev("Print", -1, "", <<>>, Fmt02x(b), <<>>))
    IN  IF LineBreakAfter(n) THEN ConsolePrint(t1, "\n") ELSE t1

\* ------------------------------------------------------------- the pool
Alloc(cnt, b) == [cnt EXCEPT ![b] = @ + 1]

\* FreePool(Buffer)
FreePool(tr) == Call(tr, "FreePool", -1, "EFI_SUCCESS")

\* Variant of IsIdeController that tests the base class only.
IsIdeControllerBaseOnly(cc) == cc[3] = PCI_CLASS_MASS_STORAGE

\* Variant of IsIdeController that also wants interface 0x80, the third
\* byte the comment above the test lists.
IsIdeControllerWithInterface(cc) ==
    cc[3] = PCI_CLASS_MASS_STORAGE /\ cc[2] = PCI_CLASS_MASS_STORAGE_IDE
                                   /\ cc[1] = 128

\* The class-code test: base class and subclass, interface not looked at.
IsIdeController(cc) ==
    cc[3] = PCI_CLASS_MASS_STORAGE /\ cc[2] = PCI_CLASS_MASS_STORAGE_IDE

\* ----------------------------------------------------------------- Init
Init ==
    /\ pc = "locate"
    /\ Status = "EFI_SUCCESS"
    /\ HandleCount = 0
    /\ Index = 0
    /\ ClassCode = << 0, 0, 0 >>
    /\ Media = [MediaId |-> 0, BlockSize |-> 0]
    /\ Buffer = << >>
    /\ i = 0
    /\ allocs = [b \in Blocks |-> 0]
    /\ frees = [b \in Blocks |-> 0]
    /\ disk \in 0..MaxDisk
    /\ trace = << >>
    /\ ret = "none"

\* return  x;
Return(x) == ret' = x /\ pc' = "done"

\* continue;  (Index++ and back to the loop test)
Continue == Index' = Index + 1 /\ pc' = "loop"

\* ------------------------------------------------------------- actions
\* Variant of LocateFailed without the return: the line, then the scan.
LocateFailedFallThrough(st) ==
    /\ trace' = ConsolePrint(Call(trace, "LocateHandleBuffer", -1, st),
                             "Failed to locate PCI I/O handles\n")
    /\ pc' = "loop"
    /\ UNCHANGED << HandleCount, Index, allocs, ret >>

\* The discovery query failed: the line, return Status.
LocateFailed(st) ==
    /\ trace' = ConsolePrint(Call(trace, "LocateHandleBuffer", -1, st),
                             "Failed to locate PCI I/O handles\n")
    /\ Return(st)
    /\ UNCHANGED << HandleCount, Index, allocs >>

\* LocateHandleBuffer(ByProtocol, PciIo) and the test of its status.
LocateHandleBuffer ==
    /\ pc = "locate"
    /\ \E st \in {"EFI_SUCCESS"} \cup LocateErrors :
         /\ Status' = st
         /\ IF EFI_ERROR(st)
            THEN LocateFailed(st)
            ELSE /\ \E n \in 0..MaxHandles : HandleCount' = n
                 /\ trace' = Call(trace, "LocateHandleBuffer", -1, st)
                 /\ allocs' = Alloc(allocs, "HandleBuffer")
                 /\ Index' = 0
                 /\ pc' = "loop"
                 /\ UNCHANGED ret
    /\ UNCHANGED << ClassCode, Media, Buffer, i, frees, disk >>

\* Index < HandleCount
LoopTest ==
    /\ pc = "loop"
    /\ pc' = IF Index < HandleCount THEN "pci_bind" ELSE "after_loop"
    /\ UNCHANGED << Status, HandleCount, Index, ClassCode, Media, Buffer, i,
                    allocs, frees, disk, trace, ret >>

\* Variant of PciIoBindFailed that gives up the scan and returns Status.
PciIoBindFailedAbort(st) ==
    /\ Return(st)
    /\ UNCHANGED Index

\* The PCI I/O bind failed on a handle: continue, nothing printed.
PciIoBindFailed(st) ==
    /\ Continue
    /\ UNCHANGED ret

\* HandleProtocol(HandleBuffer[Index], PciIo) and the test of its status.
HandleProtocolPciIo ==
    /\ pc = "pci_bind"
    /\ \E st \in {"EFI_SUCCESS"} \cup ProtocolErrors :
         /\ Status' = st
         /\ trace' = Call(trace, "HandleProtocol.PciIo", Index, st)
         /\ IF EFI_ERROR(st)
            THEN PciIoBindFailed(st)
            ELSE pc' = "pci_read" /\ UNCHANGED << Index, ret >>
    /\ UNCHANGED << HandleCount, ClassCode, Media, Buffer, i, allocs, frees,
                    disk >>

\* Variant of PciReadFailed without the continue: on to the class-code test.
PciReadFailedClassify(st) ==
    /\ trace' = Call(trace, "Pci.Read", Index, st)
    /\ pc' = "classify"
    /\ UNCHANGED << Index, ClassCode >>

\* The class-code read failed: continue, ClassCode as it was.
PciReadFailed(st) ==
    /\ trace' = Call(trace, "Pci.Read", Index, st)
    /\ Continue
    /\ UNCHANGED ClassCode

\* PciIo->Pci.Read(.., PCI_CLASSCODE_OFFSET, sizeof(ClassCode), ClassCode)
\* and the test of its status.
PciRead ==
    /\ pc = "pci_read"
    /\ \/ \E st \in PciReadErrors :
            /\ Status' = st
            /\ PciReadFailed(st)
       \/ \E sig \in Signatures :
            /\ Status' = "EFI_SUCCESS"
            /\ ClassCode' = ConfigBytes(sig)
            /\ trace' = Append(trace, Ev("Pci.Read", Index, "EFI_SUCCESS",
                                         ConfigBytes(sig), <<>>, <<>>))
            /\ pc' = "classify"
            /\ UNCHANGED Index
    /\ UNCHANGED << HandleCount, Media, Buffer, i, allocs, frees, disk, ret >>

\* The class-code test; a handle that does not match ends the loop body.
Classify ==
    /\ pc = "classify"
    /\ IF IsIdeController(ClassCode)
       THEN /\ trace' = ConsolePrint(trace, "Found PCI IDE controller\n")
            /\ pc' = "blk_bind"
            /\ UNCHANGED Index
       ELSE /\ Continue
            /\ UNCHANGED trace
    /\ UNCHANGED << Status, HandleCount, ClassCode, Media, Buffer, i, allocs,
                    frees, disk, ret >>

\* The Block I/O bind failed on the matching handle: the line, then continue.
BlockIoBindFailed(st) ==
    /\ trace' = ConsolePrint(Call(trace, "HandleProtocol.BlockIo", Index, st),
                             "Failed to locate Block I/O protocol\n")
    /\ Continue
    /\ UNCHANGED Media

\* HandleProtocol(HandleBuffer[Index], BlockIo) and the test of its status.
HandleProtocolBlockIo ==
    /\ pc = "blk_bind"
    /\ \E st \in {"EFI_SUCCESS"} \cup ProtocolErrors :
         /\ Status' = st
         /\ IF EFI_ERROR(st)
            THEN BlockIoBindFailed(st)
            ELSE /\ \E m \in MediaIds, bs \in BlockSizes :
                      Media' = [MediaId |-> m, BlockSize |-> bs]
                 /\ trace' = Call(trace, "HandleProtocol.BlockIo", Index, st)
                 /\ pc' = "alloc"
                 /\ UNCHANGED Index
    /\ UNCHANGED << HandleCount, ClassCode, Buffer, i, allocs, frees, disk,
                    ret >>

\* The event of AllocateZeroPool(BufferSize) ending with status st.
AllocEvent(st) ==
    Ev("AllocateZeroPool", -1, st, <<>>, <<>>, << BufferSize >>)

\* Variant of ZeroPool that leaves the block as the pool had it.
StalePool(size) == [k \in 1..size |-> 170]

\* The contents of a block of size bytes fresh from AllocateZeroPool.
ZeroPool(size) == [k \in 1..size |-> 0]

\* Variant of AllocateFailed that releases Buffer before it returns.
AllocateFailedFree ==
    /\ trace' = FreePool(ConsolePrint(Append(trace,
                                             AllocEvent("EFI_OUT_OF_RESOURCES")),
                                      "Failed to allocate buffer\n"))
    /\ frees' = Alloc(frees, "Buffer")
    /\ Return("EFI_OUT_OF_RESOURCES")
    /\ UNCHANGED << Buffer, allocs >>

\* AllocateZeroPool returned NULL: the line, return EFI_OUT_OF_RESOURCES.
AllocateFailed ==
    /\ trace' = ConsolePrint(Append(trace, AllocEvent("EFI_OUT_OF_RESOURCES")),
                             "Failed to allocate buffer\n")
    /\ Return("EFI_OUT_OF_RESOURCES")
    /\ UNCHANGED << Buffer, allocs, frees >>

\* Buffer = AllocateZeroPool(BufferSize) and the test for NULL.
AllocateZeroPool ==
    /\ pc = "alloc"
    /\ \/ AllocateFailed
       \/ /\ trace' = Append(trace, AllocEvent("EFI_SUCCESS"))
          /\ Buffer' = ZeroPool(BufferSize)
          /\ allocs' = Alloc(allocs, "Buffer")
          /\ pc' = "read"
          /\ UNCHANGED << ret, frees >>
    /\ UNCHANGED << Status, HandleCount, Index, ClassCode, Media, i, disk >>

\* The statuses ReadBlocks can give a request of size bytes on a device of
\* block size bs: a size that is no multiple of bs is refused.
ReadOutcomes(size, bs) ==
    IF size % bs # 0 THEN { "EFI_BAD_BUFFER_SIZE" }
    ELSE { "EFI_SUCCESS" } \cup ReadErrors

\* Variant of ReadEvent that reads the block after LBA.
ReadEventNextBlock(st) ==
    Ev("ReadBlocks", Index, st, <<>>, <<>>,
       << Media.MediaId, LBA + 1, BufferSize >>)

\* The event of ReadBlocks(BlockIo, BlockIo->Media->MediaId, LBA, BufferSize,
\* Buffer) ending with status st.
ReadEvent(st) ==
    Ev("ReadBlocks", Index, st, <<>>, <<>>, << Media.MediaId, LBA, BufferSize >>)

\* Variant of ReadBlocksFailed that returns without FreePool(Buffer).
ReadBlocksFailedNoFree(st) ==
    /\ trace' = ConsolePrint(Append(trace, ReadEvent(st)),
                             "Failed to read sector\n")
    /\ Return(st)
    /\ UNCHANGED << frees, Buffer >>

\* Variant of ReadBlocksFailed that returns EFI_DEVICE_ERROR, not Status.
ReadBlocksFailedDeviceError(st) ==
    /\ trace' = FreePool(ConsolePrint(Append(trace, ReadEvent(st)),
                                      "Failed to read sector\n"))
    /\ frees' = Alloc(frees, "Buffer")
    /\ Buffer' = << >>
    /\ Return("EFI_DEVICE_ERROR")

\* The read failed: the line, FreePool(Buffer), return Status.
ReadBlocksFailed(st) ==
    /\ trace' = FreePool(ConsolePrint(Append(trace, ReadEvent(st)),
                                      "Failed to read sector\n"))
    /\ frees' = Alloc(frees, "Buffer")
    /\ Buffer' = << >>
    /\ Return(st)

\* ReadBlocks of one sector at LBA into Buffer and the test of its status.
ReadBlocks ==
    /\ pc = "read"
    /\ \E st \in ReadOutcomes(BufferSize, Media.BlockSize) :
         /\ Status' = st
         /\ IF EFI_ERROR(st)
            THEN ReadBlocksFailed(st)
            ELSE /\ trace' = Append(trace, ReadEvent(st))
                 /\ Buffer' = Sector(disk)
                 /\ pc' = "dump"
                 /\ UNCHANGED << frees, ret >>
    /\ UNCHANGED << HandleCount, Index, ClassCode, Media, i, allocs, disk >>

\* Variant of PrintHeader that releases Buffer before the dump, not after.
PrintHeaderFreeFirst ==
    /\ pc = "dump"
    /\ trace' = ConsolePrint(FreePool(trace), "Sector content:\n")
    /\ frees' = Alloc(frees, "Buffer")
    /\ i' = 0
    /\ pc' = "dump_loop"
    /\ UNCHANGED << Status, HandleCount, Index, ClassCode, Media, Buffer,
                    allocs, disk, ret >>

\* The header line of the dump and the start of its loop.
PrintHeader ==
    /\ pc = "dump"
    /\ trace' = ConsolePrint(trace, "Sector content:\n")
    /\ i' = 0
    /\ pc' = "dump_loop"
    /\ UNCHANGED << Status, HandleCount, Index, ClassCode, Media, Buffer,
                    allocs, frees, disk, ret >>

\* One iteration of the dump loop.
DumpByte ==
    /\ pc = "dump_loop"
    /\ i < BufferSize
    /\ trace' = PrintByte(trace, i, Buffer[i + 1])
    /\ i' = i + 1
    /\ UNCHANGED << pc, Status, HandleCount, Index, ClassCode, Media, Buffer,
                    allocs, frees, disk, ret >>

\* After the dump: FreePool(Buffer); break;
FreeAndBreak ==
    /\ pc = "dump_loop"
    /\ ~ (i < BufferSize)
    /\ trace' = FreePool(trace)
    /\ frees' = Alloc(frees, "Buffer")
    /\ Buffer' = << >>
    /\ pc' = "after_loop"
    /\ UNCHANGED << Status, HandleCount, Index, ClassCode, Media, i, allocs,
                    disk, ret >>

\* Variant of AfterLoop that tests Index against HandleCount - 1.
AfterLoopOffByOne ==
    /\ pc = "after_loop"
    /\ IF Index = HandleCount - 1
       THEN /\ trace' = ConsolePrint(trace, "No PCI IDE controller found\n")
            /\ Return("EFI_NOT_FOUND")
       ELSE /\ Return("EFI_SUCCESS")
            /\ UNCHANGED trace
    /\ UNCHANGED << Status, HandleCount, Index, ClassCode, Media, Buffer, i,
                    allocs, frees, disk >>

\* if (Index == HandleCount) { line; return EFI_NOT_FOUND; } return EFI_SUCCESS;
AfterLoop ==
    /\ pc = "after_loop"
    /\ IF Index = HandleCount
       THEN /\ trace' = ConsolePrint(trace, "No PCI IDE controller found\n")
            /\ Return("EFI_NOT_FOUND")
       ELSE /\ Return("EFI_SUCCESS")
            /\ UNCHANGED trace
    /\ UNCHANGED << Status, HandleCount, Index, ClassCode, Media, Buffer, i,
                    allocs, frees, disk >>

Next ==
    \/ LocateHandleBuffer
    \/ LoopTest
    \/ HandleProtocolPciIo
    \/ PciRead
    \/ Classify
    \/ HandleProtocolBlockIo
    \/ AllocateZeroPool
    \/ ReadBlocks
    \/ PrintHeader
    \/ DumpByte
    \/ FreeAndBreak
    \/ AfterLoop

Spec == Init /\ [][Next]_vars

\* =================================================================
\* Properties.  A run is over when pc = "done"; trace only grows, so a
\* property of every event of a run is stated on the trace of the finished
\* run.
Done == pc = "done"

\* The handle-directed firmware calls.
HandleOps == { "HandleProtocol.PciIo", "Pci.Read", "HandleProtocol.BlockIo",
               "ReadBlocks" }

IsCall(e, op) == e.op = op
Failed(e) == e.st # "EFI_SUCCESS"
IsLine(e, line) == e.op = "Print" /\ e.out = << line >>

\* The class signature (base class, subclass, interface) a successful
\* Pci.Read event delivered.
SignatureOf(e) == << e.bytes[3], e.bytes[2], e.bytes[1] >>
ReadOk(e) == e.op = "Pci.Read" /\ e.st = "EFI_SUCCESS"
MatchRead(e) == ReadOk(e) /\ SignatureOf(e)[1] = 1 /\ SignatureOf(e)[2] = 1

\* Some event of the trace satisfies P / positions of the events that do.
Positions(P(_)) == { a \in 1..Len(trace) : P(trace[a]) }
HasCall(op) == \E a \in 1..Len(trace) : trace[a].op = op

\* The handle at position a is selected: the Found line follows its
\* class-code read and the Block I/O bind is then made on that same handle.
Selected(a) ==
    /\ a + 2 <= Len(trace)
    /\ IsLine(trace[a + 1], "Found PCI IDE controller\n")
    /\ trace[a + 2].op = "HandleProtocol.BlockIo"
    /\ trace[a + 2].idx = trace[a].idx

Outstanding(b) == allocs[b] - frees[b]

\* C1 (as claimed): once the lowest-indexed handle whose PCI bind and
\* class-code read succeed with a (mass-storage, IDE) signature has been
\* reached, it is selected and no handle at a higher index is bound or read
\* in the rest of the run.
C1_FirstMatchStopsScan ==
    Done =>
      \A a \in Positions(MatchRead) :
        (\A c \in Positions(MatchRead) : a <= c) =>
          /\ Selected(a)
          /\ \A b \in (a + 1)..Len(trace) :
               trace[b].op \in HandleOps => trace[b].idx <= trace[a].idx

\* C2: when the discovery query succeeds and no handle delivers a
\* (mass-storage, IDE) signature, the run returns EFI_NOT_FOUND after a PCI
\* bind on every handle, its last output is the one "No PCI IDE controller
\* found" line, and no Block I/O bind, allocation or block read was made.
C2_NoMatchNotFound ==
    (Done /\ HasCall("LocateHandleBuffer") /\ ~ Failed(trace[1])
          /\ Positions(MatchRead) = {}) =>
      /\ ret = "EFI_NOT_FOUND"
      /\ \A h \in 0..(HandleCount - 1) :
           \E a \in 1..Len(trace) :
             trace[a].op = "HandleProtocol.PciIo" /\ trace[a].idx = h
      /\ IsLine(trace[Len(trace)], "No PCI IDE controller found\n")
      /\ Cardinality(Positions(LAMBDA e : e.op = "Print")) = 1
      /\ ~ HasCall("HandleProtocol.BlockIo")
      /\ ~ HasCall("AllocateZeroPool")
      /\ ~ HasCall("ReadBlocks")
      /\ allocs["Buffer"] = 0

C2_Witness ==
    /\ Done /\ HandleCount >= 2 /\ ret = "EFI_NOT_FOUND"
    /\ Positions(MatchRead) = {}
    /\ \E a \in Positions(ReadOk) : SignatureOf(trace[a]) = << 1, 6, 0 >>
    /\ \E a \in 1..Len(trace) :
         trace[a].op = "HandleProtocol.PciIo" /\ Failed(trace[a])

\* C3: the transfer buffer is never released more often than it was
\* allocated, and when the run returns no transfer buffer is outstanding.
C3_BufferNeverLeaks ==
    /\ frees["Buffer"] <= allocs["Buffer"]
    /\ Done => Outstanding("Buffer") = 0

C3_Witness ==
    /\ Done /\ allocs["Buffer"] = 1 /\ frees["Buffer"] = 1
    /\ \E a \in 1..Len(trace) : trace[a].op = "ReadBlocks" /\ Failed(trace[a])

\* C4 (as claimed): after a failed Block I/O bind on the selected handle
\* the run ends with an error status other than not-found and makes no
\* further call on any handle.
C4_NoFallbackAfterCommit ==
    Done =>
      \A a \in 1..Len(trace) :
        (trace[a].op = "HandleProtocol.BlockIo" /\ Failed(trace[a])) =>
          /\ ret \notin { "EFI_SUCCESS", "EFI_NOT_FOUND" }
          /\ \A b \in (a + 1)..Len(trace) : trace[b].op \notin HandleOps

\* Output of the dump: its header, a byte token or a line break.
IsDumpOutput(e) ==
    /\ e.op = "Print"
    /\ \/ e.out = << "Sector content:\n" >>
       \/ e.out = << "\n" >>
       \/ Len(e.out) > 1

ReadFailedAt(a) == trace[a].op = "ReadBlocks" /\ Failed(trace[a])

\* C5: when the block read returns an error, the run returns that error,
\* the buffer was released (once, after the read) and is not outstanding,
\* and neither the dump header nor any byte of dump was printed.
C5_ReadErrorNoDump ==
    Done =>
      \A a \in 1..Len(trace) :
        ReadFailedAt(a) =>
          /\ ret = trace[a].st
          /\ Outstanding("Buffer") = 0
          /\ \E b \in (a + 1)..Len(trace) : trace[b].op = "FreePool"
          /\ Cardinality(Positions(LAMBDA e : e.op = "FreePool")) = 1
          /\ Positions(IsDumpOutput) = {}

C5_Witness ==
    /\ Done /\ ret = "EFI_MEDIA_CHANGED"
    /\ \E a \in 1..Len(trace) : ReadFailedAt(a)
    /\ Positions(IsDumpOutput) = {}

\* The lines that report an error, and the exit status each stands for.
ErrorLines == { "Failed to locate PCI I/O handles\n",
                "Failed to locate Block I/O protocol\n",
                "Failed to allocate buffer\n",
                "Failed to read sector\n",
                "No PCI IDE controller found\n" }
IsErrorLine(e) == e.op = "Print" /\ Len(e.out) = 1 /\ e.out[1] \in ErrorLines

LineStatus(a) ==
    CASE trace[a].out[1] = "Failed to allocate buffer\n" ->
             "EFI_OUT_OF_RESOURCES"
      [] trace[a].out[1] = "No PCI IDE controller found\n" -> "EFI_NOT_FOUND"
      [] OTHER -> trace[a - 1].st

\* C6 (as claimed): every error line ends the run: after it nothing is
\* printed, no firmware call but the release of the buffer is made, and the
\* run returns the status that line stands for.
C6_ErrorLineEndsRun ==
    Done =>
      \A a \in Positions(IsErrorLine) :
        /\ \A b \in (a + 1)..Len(trace) : trace[b].op = "FreePool"
        /\ ret = LineStatus(a)

HexValue(c) ==
    CASE c = "0" -> 0 [] c = "1" -> 1 [] c = "2" -> 2 [] c = "3" -> 3
      [] c = "4" -> 4 [] c = "5" -> 5 [] c = "6" -> 6 [] c = "7" -> 7
      [] c = "8" -> 8 [] c = "9" -> 9
      [] c \in { "A", "a" } -> 10 [] c \in { "B", "b" } -> 11
      [] c \in { "C", "c" } -> 12 [] c \in { "D", "d" } -> 13
      [] c \in { "E", "e" } -> 14 [] c \in { "F", "f" } -> 15
      [] OTHER -> -1

ReadOkAt(a) == trace[a].op = "ReadBlocks" /\ ~ Failed(trace[a])

\* The events after a successful read at position r are exactly the dump
\* of the bytes content: the header, then for byte k = 0, 1, .. one token of
\* two hex digits and a space, a line break after each 16th byte, and after
\* the last byte the release of the buffer.
DumpOf(r, content) ==
    /\ Len(trace) = r + 2 + BufferSize + BufferSize \div 16
    /\ IsLine(trace[r + 1], "Sector content:\n")
    /\ \A k \in 0..(BufferSize - 1) :
         LET e == trace[r + 2 + k + k \div 16]
         IN  /\ e.op = "Print"
             /\ Len(e.out) = 3
             /\ HexValue(e.out[1]) >= 0
             /\ HexValue(e.out[2]) >= 0
             /\ 16 * HexValue(e.out[1]) + HexValue(e.out[2]) = content[k + 1]
             /\ e.out[3] = " "
             /\ (k + 1) % 16 = 0 => IsLine(trace[r + 3 + k + k \div 16], "\n")
    /\ trace[Len(trace)].op = "FreePool"

\* C7: after a successful read the buffer holds the backend's block at
\* LBA 0, and the finished run has printed exactly those bytes in order,
\* two hex digits and a space each, 16 to a line.
C7_RoundTrip ==
    /\ pc = "dump" => Buffer = Sector(disk)
    /\ Done =>
         \A r \in 1..Len(trace) :
           ReadOkAt(r) => LET content == Sector(disk) IN DumpOf(r, content)

C7_Witness ==
    /\ Done /\ ret = "EFI_SUCCESS" /\ disk = 1
    /\ \E r \in 1..Len(trace) : ReadOkAt(r)
    /\ Cardinality(Positions(LAMBDA e : IsLine(e, "\n"))) = 32

PciBindFailedAt(a) ==
    trace[a].op = "HandleProtocol.PciIo" /\ Failed(trace[a])

\* C9: a failed PCI bind is followed at once by the PCI bind of the next
\* handle, or, on the last handle, by the not-found line and return; no
\* line is printed for it, and a matching handle read later is selected.
C9_PciBindFailureSkips ==
    Done =>
      \A a \in 1..Len(trace) :
        PciBindFailedAt(a) =>
          /\ a < Len(trace)
          /\ IF trace[a].idx + 1 < HandleCount
             THEN /\ trace[a + 1].op = "HandleProtocol.PciIo"
                  /\ trace[a + 1].idx = trace[a].idx + 1
             ELSE /\ a + 1 = Len(trace)
                  /\ IsLine(trace[a + 1], "No PCI IDE controller found\n")
                  /\ ret = "EFI_NOT_FOUND"
          /\ \A b \in (a + 1)..Len(trace) : MatchRead(trace[b]) => Selected(b)

C9_Witness ==
    /\ Done /\ ret = "EFI_SUCCESS"
    /\ \E a \in 1..Len(trace) :
         /\ PciBindFailedAt(a)
         /\ \E b \in (a + 1)..Len(trace) : MatchRead(trace[b]) /\ Selected(b)

\* C10: when the discovery query fails the run consists of that one call
\* and its failure line, returns the query's status, and has bound no
\* handle, read no configuration space, allocated nothing and read no block.
C10_DiscoveryFailureFatal ==
    (Done /\ trace[1].op = "LocateHandleBuffer" /\ Failed(trace[1])) =>
      /\ ret = trace[1].st
      /\ Len(trace) = 2
      /\ IsLine(trace[2], "Failed to locate PCI I/O handles\n")
      /\ \A b \in Blocks : allocs[b] = 0

C10_Witness ==
    /\ Done /\ ret = "EFI_OUT_OF_RESOURCES"
    /\ trace[1].op = "LocateHandleBuffer" /\ Failed(trace[1])

AllocFailedAt(a) == trace[a].op = "AllocateZeroPool" /\ Failed(trace[a])

\* C11: when the allocation of the transfer buffer fails, the run ends
\* with its failure line and EFI_OUT_OF_RESOURCES, and it has issued no
\* block read, printed no dump and released nothing.
C11_AllocFailureFatal ==
    Done =>
      \A a \in 1..Len(trace) :
        AllocFailedAt(a) =>
          /\ ret = "EFI_OUT_OF_RESOURCES"
          /\ a + 1 = Len(trace)
          /\ IsLine(trace[a + 1], "Failed to allocate buffer\n")
          /\ ~ HasCall("ReadBlocks")
          /\ ~ HasCall("FreePool")
          /\ Positions(IsDumpOutput) = {}
          /\ allocs["Buffer"] = 0
          /\ \A b \in Blocks : frees[b] = 0

C11_Witness ==
    /\ Done /\ ret = "EFI_OUT_OF_RESOURCES"
    /\ \E a \in 1..Len(trace) : AllocFailedAt(a)

\* C12 (as claimed): every pool block obtained during a run, the handle
\* list of the discovery query and the transfer buffer, has been released
\* exactly once when the run returns.
C12_AllocFreePaired ==
    Done => \A b \in Blocks : frees[b] = allocs[b]

\* C13 (as claimed): the transfer buffer is allocated with, and the block
\* read is issued for, exactly the block size the bound device reports.
C13_OneDeviceSector ==
    Done =>
      \A a \in 1..Len(trace) :
        /\ (trace[a].op = "AllocateZeroPool" /\ ~ Failed(trace[a])) =>
             trace[a].req[1] = Media.BlockSize
        /\ trace[a].op = "ReadBlocks" =>
             /\ trace[a].req[3] = Media.BlockSize
             /\ trace[a].req[3] % Media.BlockSize = 0

\* The transfer buffer is all zero.
AllZero(buf) == \A k \in 1..Len(buf) : buf[k] = 0

\* C14: when the block read is about to be issued the transfer buffer is
\* one sector of zero bytes, and after the read each of its bytes, the
\* bytes the dump renders, is the device's byte or 0.
C14_ZeroFilledBeforeRead ==
    /\ pc = "read" => (Len(Buffer) = BufferSize /\ AllZero(Buffer))
    /\ pc = "dump" =>
         /\ Len(Buffer) = BufferSize
         /\ \A k \in 1..BufferSize : Buffer[k] \in { Sector(disk)[k], 0 }

C14_Witness ==
    /\ pc = "read" /\ Len(Buffer) = BufferSize /\ AllZero(Buffer)
    /\ trace[Len(trace)].op = "AllocateZeroPool"

\* The firmware calls efi_main is known to make; a write to the device
\* would be an event of another op.
KnownOps == { "LocateHandleBuffer", "HandleProtocol.PciIo", "Pci.Read",
              "HandleProtocol.BlockIo", "AllocateZeroPool", "ReadBlocks",
              "FreePool", "Print" }

\* C15: a run allocates at most one transfer buffer and issues at most one
\* block read, that read is for LBA 0 with the media identifier of the
\* bound device on the handle just bound, and no other device call (no
\* write) is made.
C15_OneShotTransfer ==
    /\ allocs["Buffer"] <= 1
    /\ Done =>
         /\ Cardinality(Positions(LAMBDA e : e.op = "AllocateZeroPool")) <= 1
         /\ Cardinality(Positions(LAMBDA e : e.op = "ReadBlocks")) <= 1
         /\ \A a \in 1..Len(trace) :
              /\ trace[a].op \in KnownOps
              /\ trace[a].op = "ReadBlocks" =>
                   /\ trace[a].req[1] = Media.MediaId
                   /\ trace[a].req[1] \in MediaIds
                   /\ trace[a].req[2] = 0
                   /\ \E b \in 1..(a - 1) :
                        /\ trace[b].op = "HandleProtocol.BlockIo"
                        /\ ~ Failed(trace[b])
                        /\ trace[b].idx = trace[a].idx

C15_Witness ==
    /\ Done
    /\ Cardinality(Positions(LAMBDA e : e.op = "ReadBlocks")) = 1
    /\ allocs["Buffer"] = 1
    /\ \E a \in 1..Len(trace) :
         trace[a].op = "HandleProtocol.BlockIo" /\ Failed(trace[a])

PciReadFailedAt(a) == trace[a].op = "Pci.Read" /\ Failed(trace[a])

\* C16: a failed class-code read is followed at once by the PCI bind of
\* the next handle, or, on the last handle, by the not-found line and
\* return: nothing is printed for it and the handle is not selected, whatever
\* class code an earlier handle left behind.
C16_PciReadFailureSkips ==
    Done =>
      \A a \in 1..Len(trace) :
        PciReadFailedAt(a) =>
          /\ a < Len(trace)
          /\ ~ Selected(a)
          /\ IF trace[a].idx + 1 < HandleCount
             THEN /\ trace[a + 1].op = "HandleProtocol.PciIo"
                  /\ trace[a + 1].idx = trace[a].idx + 1
             ELSE /\ a + 1 = Len(trace)
                  /\ IsLine(trace[a + 1], "No PCI IDE controller found\n")
                  /\ ret = "EFI_NOT_FOUND"

\* A handle's class-code read fails after an earlier handle left a
\* (mass-storage, IDE) class code in ClassCode.
C16_Witness ==
    /\ Done /\ IsIdeController(ClassCode)
    /\ \E a \in 1..Len(trace) :
         /\ PciReadFailedAt(a)
         /\ \E b \in 1..(a - 1) : MatchRead(trace[b])
         /\ \A b \in (a + 1)..Len(trace) : ~ ReadOk(trace[b])

\* The whole verification went through on the handle read at position a:
\* selected, Block I/O bound, buffer allocated, block read, sector dumped.
Verified(a) ==
    /\ MatchRead(trace[a])
    /\ Selected(a)
    /\ ~ Failed(trace[a + 2])
    /\ a + 4 <= Len(trace)
    /\ trace[a + 3].op = "AllocateZeroPool" /\ ~ Failed(trace[a + 3])
    /\ ReadOkAt(a + 4)
    /\ DumpOf(a + 4, Sector(disk))

\* C17: a finished run returns EFI_SUCCESS exactly when some matching
\* handle was found and its Block I/O bind, the allocation and the read
\* succeeded and the whole sector was dumped; otherwise it returns an error.
C17_SuccessIffVerified ==
    Done =>
      /\ ret # "none"
      /\ ret = "EFI_SUCCESS" <=> \E a \in Positions(MatchRead) : Verified(a)

C17_Witness ==
    /\ Done /\ ret = "EFI_SUCCESS" /\ Index = HandleCount - 1
    /\ \E a \in Positions(MatchRead) : Verified(a)

AllocOkAt(a) == trace[a].op = "AllocateZeroPool" /\ ~ Failed(trace[a])

\* C18: the transfer buffer is allocated exactly while the run is at the
\* read or in the dump; in the finished run the allocation directly follows
\* a successful Block I/O bind, the read directly follows the successful
\* allocation, every piece of dump comes after a successful read and before
\* any release, and the release comes after the allocation.
C18_VerificationOrder ==
    /\ (pc \in { "read", "dump", "dump_loop" }) <=> Outstanding("Buffer") = 1
    /\ Outstanding("Buffer") \in { 0, 1 }
    /\ Done =>
         LET reads == Positions(LAMBDA e : e.op = "ReadBlocks" /\ ~ Failed(e))
             rels == Positions(LAMBDA e : e.op = "FreePool")
         IN  /\ \A a \in Positions(LAMBDA e : e.op = "AllocateZeroPool") :
                  /\ a > 1
                  /\ trace[a - 1].op = "HandleProtocol.BlockIo"
                  /\ ~ Failed(trace[a - 1])
             /\ \A a \in Positions(LAMBDA e : e.op = "ReadBlocks") :
                  AllocOkAt(a - 1)
             /\ \A a \in Positions(IsDumpOutput) :
                  /\ \E r \in reads : r < a
                  /\ \A f \in rels : a < f
             /\ \A f \in rels : \E a \in 1..(f - 1) : AllocOkAt(a)

C18_Witness ==
    /\ Done /\ ret = "EFI_SUCCESS"
    /\ Positions(IsDumpOutput) # {}
    /\ trace[Len(trace)].op = "FreePool"
====
